---- MODULE Spec2Model ----
(***************************************************************************)
(* Model of pkg/util/collections/includes_excludes.go (velero).            *)
(*                                                                         *)
(* Strings are sequences of one-character strings, so that glob matching,  *)
(* byte-wise sorting and group-resource parsing are computed character by  *)
(* character.  A globStringSet (a sets.String, i.e. a map keyed by string) *)
(* is a set of such sequences; List() is its byte-wise sorted sequence.    *)
(***************************************************************************)
EXTENDS Integers, Sequences, FiniteSets, TLC

VARIABLES
    includes,      \* IncludesExcludes.includes
    excludes,      \* IncludesExcludes.excludes
    call,          \* the last call made: [op, arg, ret, list] (list: a returned slice)
    added,         \* history: the strings ever passed to Includes (inc) and
                   \* Excludes (exc); again: the last such call passed a
                   \* string that had been passed before, or passed one twice
    includesList,  \* raw includes slice handed to the validator / generator
    excludesList,  \* raw excludes slice handed to the validator / generator
    mapFunc,       \* mapping function handed to GenerateIncludesExcludes
    helper,        \* discovery.Helper: outcome of ResourceFor per group-resource
    errs           \* []error returned by ValidateIncludesExcludes

vars == <<includes, excludes, call, added, includesList, excludesList,
          mapFunc, helper, errs>>

----------------------------------------------------------------------------
(* Bounds of the model. *)

MaxSet == 2      \* largest includes / excludes set built by Includes / Excludes
MaxItems == 2    \* most arguments of one variadic Includes / Excludes call
MaxList == 2     \* longest raw slice handed to the validator / generator

----------------------------------------------------------------------------
(* Strings. *)

\* Byte value of each character used (Go compares strings byte-wise).
Code == [c \in {"!", "*", ".", "?", "[", "a", "b", "g", "p", "w"} |->
            CASE c = "!" -> 33 [] c = "*" -> 42 [] c = "." -> 46
              [] c = "?" -> 63 [] c = "[" -> 91 [] c = "a" -> 97
              [] c = "b" -> 98 [] c = "g" -> 103 [] c = "p" -> 112
              [] c = "w" -> 119]

Star == <<"*">>
Empty == <<>>

\* Patterns handed to Includes / Excludes: literals, globs, the wildcard,
\* and two patterns glob.Compile rejects ("[" and "![": unterminated range).
Patterns == { Star, <<"[">>, <<"!", "[">>, <<"a">>, <<"a", "*">>, <<"b">> }

\* Candidates handed to ShouldInclude / match.
Candidates == { Empty, <<"a">>, <<"b">>, <<"a", "b">> }

\* Entries of the raw slices handed to ValidateIncludesExcludes.
ValItems == { Star, <<"a">>, <<"b">> }

\* Entries of the raw slices handed to the generator.
GenItems == { Star, Empty, <<"p">>, <<"w">> }

\* Values a mapping function may return ("" means: omit the entry).
Keys == { Empty, <<"p">>, <<"g">> }

ToSet(seq) == { seq[i] : i \in 1..Len(seq) }

SeqsUpTo(S, n) == UNION { [1..k -> S] : k \in 0..n }

\* s < t for Go strings: byte-wise lexicographic order.
Less(s, t) ==
    \E i \in 1..Len(t) :
        /\ \A j \in 1..(i - 1) : j <= Len(s) /\ s[j] = t[j]
        /\ \/ i > Len(s)
           \/ Code[s[i]] < Code[t[i]]

----------------------------------------------------------------------------
(* sets.String, as used by globStringSet. *)

\* Faulty variant: the set is rebuilt from the arguments.
InsertReplace(set, items) == ToSet(items)

\* sets.String.Insert(items...): map insertion of every item.
Insert(set, items) == set \cup ToSet(items)

\* sets.String.Len()
SetLen(set) == Cardinality(set)

\* sets.String.Has(item): exact-string membership.
Has(set, item) == item \in set

\* sets.String.List(): the members as a sorted slice.
RECURSIVE List(_)
List(set) ==
    IF set = {} THEN <<>>
    ELSE LET least == CHOOSE x \in set : \A y \in set \ {x} : Less(x, y)
         IN  <<least>> \o List(set \ {least})

----------------------------------------------------------------------------
(* github.com/gobwas/glob, for the syntax the patterns above use. *)

\* glob.Compile(item) returns an error: a "[" that no "]" closes.
CompileErr(item) ==
    \E i \in 1..Len(item) :
        /\ item[i] = "["
        /\ ~ \E j \in (i + 1)..Len(item) : item[j] = "]"

\* g.Match(s) for a compiled pattern without separators: "*" matches any
\* run of characters, "?" any one character, anything else itself.
RECURSIVE GlobMatch(_, _)
GlobMatch(item, s) ==
    IF item = <<>> THEN s = <<>>
    ELSE IF Head(item) = "*"
         THEN \E k \in 0..Len(s) : GlobMatch(Tail(item), SubSeq(s, k + 1, Len(s)))
    ELSE IF Head(item) = "?"
         THEN s # <<>> /\ GlobMatch(Tail(item), Tail(s))
    ELSE s # <<>> /\ Head(s) = Head(item) /\ GlobMatch(Tail(item), Tail(s))

\* Faulty variant: a pattern that does not compile is skipped.
RECURSIVE matchListSkip(_, _)
matchListSkip(list, s) ==
    IF list = <<>> THEN FALSE
    ELSE IF CompileErr(Head(list)) THEN matchListSkip(Tail(list), s)
    ELSE IF GlobMatch(Head(list), s) THEN TRUE
    ELSE matchListSkip(Tail(list), s)

\* The loop of globStringSet.match over a slice of patterns.
RECURSIVE matchList(_, _)
matchList(list, s) ==
    IF list = <<>> THEN FALSE
    ELSE IF CompileErr(Head(list)) THEN FALSE
    ELSE IF GlobMatch(Head(list), s) THEN TRUE
    ELSE matchList(Tail(list), s)

\* globStringSet.match
match(gss, s) == matchList(List(gss), s)

----------------------------------------------------------------------------
(* IncludesExcludes queries. *)

\* Faulty variant: an empty includes set no longer means "everything".
ShouldIncludeNoEmpty(inc, exc, s) ==
    IF match(exc, s) THEN FALSE
    ELSE Has(inc, Star) \/ match(inc, s)

ShouldInclude(inc, exc, s) ==
    IF match(exc, s) THEN FALSE
    ELSE SetLen(inc) = 0 \/ Has(inc, Star) \/ match(inc, s)

\* Faulty variant: the wildcard need not be alone.
IncludeEverythingAnyStar(inc, exc) ==
    SetLen(exc) = 0 /\ (SetLen(inc) = 0 \/ Has(inc, Star))

\* Faulty variant: the excludes set is not looked at.
IncludeEverythingIgnoreExcludes(inc, exc) ==
    SetLen(inc) = 0 \/ (SetLen(inc) = 1 /\ Has(inc, Star))

IncludeEverything(inc, exc) ==
    SetLen(exc) = 0 /\ (SetLen(inc) = 0 \/ (SetLen(inc) = 1 /\ Has(inc, Star)))

----------------------------------------------------------------------------
(* Values the variables hold while a specification does not use them. *)

NoCall == [op |-> "new", arg |-> <<>>, ret |-> TRUE, list |-> <<>>]
NoAdded == [inc |-> {}, exc |-> {}, again |-> FALSE]
MapDomain == GenItems \ {Star}
IdentityMap == [item \in MapDomain |-> item]
NotFound == [Group |-> <<>>, Resource |-> <<>>, err |-> TRUE]
NoHelper == [gr \in {} |-> NotFound]

----------------------------------------------------------------------------
(* The IncludesExcludes object: built by Includes / Excludes, then queried. *)

\* NewIncludesExcludes()
Init ==
    /\ includes = {}
    /\ excludes = {}
    /\ call = NoCall
    /\ added = NoAdded
    /\ includesList = <<>>
    /\ excludesList = <<>>
    /\ mapFunc = IdentityMap
    /\ helper = NoHelper
    /\ errs = <<>>

\* Some item is passed a second time: it was passed by an earlier call, or
\* it occurs twice among the arguments.
Repeats(before, items) ==
    \/ ToSet(items) \cap before # {}
    \/ Cardinality(ToSet(items)) < Len(items)

Inputs == <<includesList, excludesList, mapFunc, helper, errs>>

Includes(items) ==
    /\ SetLen(Insert(includes, items)) <= MaxSet
    /\ includes' = Insert(includes, items)
    /\ added' = [added EXCEPT !.inc = @ \cup ToSet(items),
                              !.again = Repeats(added.inc, items)]
    /\ call' = [op |-> "Includes", arg |-> <<>>, ret |-> TRUE, list |-> <<>>]
    /\ UNCHANGED <<excludes, Inputs>>

Excludes(items) ==
    /\ SetLen(Insert(excludes, items)) <= MaxSet
    /\ excludes' = Insert(excludes, items)
    /\ added' = [added EXCEPT !.exc = @ \cup ToSet(items),
                              !.again = Repeats(added.exc, items)]
    /\ call' = [op |-> "Excludes", arg |-> <<>>, ret |-> TRUE, list |-> <<>>]
    /\ UNCHANGED <<includes, Inputs>>

CallShouldInclude(s) ==
    /\ call' = [op |-> "ShouldInclude", arg |-> s,
                ret |-> ShouldInclude(includes, excludes, s), list |-> <<>>]
    /\ UNCHANGED <<includes, excludes, added, Inputs>>

CallIncludeEverything ==
    /\ call' = [op |-> "IncludeEverything", arg |-> <<>>,
                ret |-> IncludeEverything(includes, excludes), list |-> <<>>]
    /\ UNCHANGED <<includes, excludes, added, Inputs>>

\* ie.includes.match(s), the pattern-set query on its own.
CallMatch(s) ==
    /\ call' = [op |-> "match", arg |-> s, ret |-> match(includes, s),
                list |-> <<>>]
    /\ UNCHANGED <<includes, excludes, added, Inputs>>

CallGetIncludes ==
    /\ call' = [op |-> "GetIncludes", arg |-> <<>>, ret |-> TRUE,
                list |-> List(includes)]
    /\ UNCHANGED <<includes, excludes, added, Inputs>>

CallGetExcludes ==
    /\ call' = [op |-> "GetExcludes", arg |-> <<>>, ret |-> TRUE,
                list |-> List(excludes)]
    /\ UNCHANGED <<includes, excludes, added, Inputs>>

Items == SeqsUpTo(Patterns, MaxItems) \ {<<>>}

Next ==
    \/ \E items \in Items : Includes(items)
    \/ \E items \in Items : Excludes(items)
    \/ \E s \in Candidates : CallShouldInclude(s)
    \/ CallIncludeEverything
    \/ \E s \in Candidates : CallMatch(s)
    \/ CallGetIncludes
    \/ CallGetExcludes

Spec == Init /\ [][Next]_vars

----------------------------------------------------------------------------
(* ValidateIncludesExcludes: a pure function of the two raw slices. *)

WildcardMixed == [kind |-> "includes-wildcard-with-others", item |-> <<>>]
WildcardExcluded == [kind |-> "excludes-wildcard", item |-> <<>>]
Overlap(itm) == [kind |-> "excluded-item-is-included", item |-> itm]

\* Faulty variant: the first rule broken ends the validation.
ValidateFailFast(incList, excList) ==
    LET inc == ToSet(incList)
        exc == ToSet(excList)
        both == SelectSeq(List(exc), LAMBDA itm : Has(inc, itm))
    IN  IF SetLen(inc) > 1 /\ Has(inc, Star) THEN <<WildcardMixed>>
        ELSE IF Has(exc, Star) THEN <<WildcardExcluded>>
        ELSE [i \in 1..Len(both) |-> Overlap(both[i])]

ValidateIncludesExcludes(incList, excList) ==
    LET inc == ToSet(incList)
        exc == ToSet(excList)
        both == SelectSeq(List(exc), LAMBDA itm : Has(inc, itm))
    IN  (IF SetLen(inc) > 1 /\ Has(inc, Star) THEN <<WildcardMixed>> ELSE <<>>)
        \o (IF Has(exc, Star) THEN <<WildcardExcluded>> ELSE <<>>)
        \o [i \in 1..Len(both) |-> Overlap(both[i])]

ValidateInit ==
    /\ includesList \in SeqsUpTo(ValItems, MaxList)
    /\ excludesList \in SeqsUpTo(ValItems, MaxList)
    /\ includes = {}
    /\ excludes = {}
    /\ call = NoCall
    /\ added = NoAdded
    /\ mapFunc = IdentityMap
    /\ helper = NoHelper
    /\ errs = <<>>

CallValidate ==
    /\ errs' = ValidateIncludesExcludes(includesList, excludesList)
    /\ call' = [op |-> "Validate", arg |-> <<>>, ret |-> TRUE, list |-> <<>>]
    /\ UNCHANGED <<includes, excludes, added, includesList, excludesList,
                   mapFunc, helper>>

ValidateNext == CallValidate

ValidateSpec == ValidateInit /\ [][ValidateNext]_vars

----------------------------------------------------------------------------
(* GenerateIncludesExcludes: builds a new IncludesExcludes from raw slices. *)

\* The first loop: over the raw includes, res.Includes(...) into acc.
RECURSIVE GenIncludes(_, _, _)
GenIncludes(list, fn, acc) ==
    IF list = <<>> THEN acc
    ELSE LET item == Head(list)
         IN  IF item = Star THEN GenIncludes(Tail(list), fn, Insert(acc, <<item>>))
             ELSE LET key == fn[item]
                  IN  IF key = <<>> THEN GenIncludes(Tail(list), fn, acc)
                      ELSE GenIncludes(Tail(list), fn, Insert(acc, <<key>>))

\* Faulty variant: a wildcard in the raw excludes is kept.
RECURSIVE GenExcludesKeepStar(_, _, _)
GenExcludesKeepStar(list, fn, acc) ==
    IF list = <<>> THEN acc
    ELSE LET item == Head(list)
         IN  IF item = Star
             THEN GenExcludesKeepStar(Tail(list), fn, Insert(acc, <<item>>))
             ELSE LET key == fn[item]
                  IN  IF key = <<>> THEN GenExcludesKeepStar(Tail(list), fn, acc)
                      ELSE GenExcludesKeepStar(Tail(list), fn, Insert(acc, <<key>>))

\* The second loop: over the raw excludes, res.Excludes(...) into acc.
RECURSIVE GenExcludes(_, _, _)
GenExcludes(list, fn, acc) ==
    IF list = <<>> THEN acc
    ELSE LET item == Head(list)
         IN  IF item = Star THEN GenExcludes(Tail(list), fn, acc)
             ELSE LET key == fn[item]
                  IN  IF key = <<>> THEN GenExcludes(Tail(list), fn, acc)
                      ELSE GenExcludes(Tail(list), fn, Insert(acc, <<key>>))

GenerateIncludesExcludes(incList, excList, fn) ==
    [includes |-> GenIncludes(incList, fn, {}),
     excludes |-> GenExcludes(excList, fn, {})]

GenerateInit ==
    /\ includesList \in SeqsUpTo(GenItems, MaxList)
    /\ excludesList \in SeqsUpTo(GenItems, MaxList)
    /\ mapFunc \in [MapDomain -> Keys]
    /\ includes = {}
    /\ excludes = {}
    /\ call = NoCall
    /\ added = NoAdded
    /\ helper = NoHelper
    /\ errs = <<>>

CallGenerate ==
    LET res == GenerateIncludesExcludes(includesList, excludesList, mapFunc)
    IN  /\ includes' = res.includes
        /\ excludes' = res.excludes
        /\ call' = [op |-> "Generate", arg |-> <<>>, ret |-> TRUE, list |-> <<>>]
        /\ UNCHANGED <<added, Inputs>>

GenerateNext == CallGenerate

GenerateSpec == GenerateInit /\ [][GenerateNext]_vars

----------------------------------------------------------------------------
(* GetResourceIncludesExcludes: the generator with the discovery helper. *)

\* schema.ParseGroupResource: split at the first ".".
ParseGroupResource(item) ==
    LET dots == { i \in 1..Len(item) : item[i] = "." }
    IN  IF dots # {}
        THEN LET i == CHOOSE d \in dots : \A e \in dots : d <= e
             IN  [Group |-> SubSeq(item, i + 1, Len(item)),
                  Resource |-> SubSeq(item, 1, i - 1)]
        ELSE [Group |-> <<>>, Resource |-> item]

\* schema.GroupResource.String()
GRString(gr) ==
    IF Len(gr.Group) = 0 THEN gr.Resource
    ELSE gr.Resource \o <<".">> \o gr.Group

\* What helper.ResourceFor may answer: an error, or a group-version-resource
\* the API server knows (its resource name is never empty).
Resolved == { [Group |-> <<>>, Resource |-> <<"p">>, err |-> FALSE],
              [Group |-> <<"g">>, Resource |-> <<"p">>, err |-> FALSE] }

Helpers == [ { ParseGroupResource(item) : item \in MapDomain } -> Resolved \cup {NotFound} ]

\* The closure handed to GenerateIncludesExcludes.
ResourceMapFunc(h) ==
    [item \in MapDomain |->
        LET gvr == h[ParseGroupResource(item)]
        IN  IF gvr.err THEN item
            ELSE GRString([Group |-> gvr.Group, Resource |-> gvr.Resource])]

GetResourceIncludesExcludes(h, incList, excList) ==
    GenerateIncludesExcludes(incList, excList, ResourceMapFunc(h))

ResourceInit ==
    /\ includesList \in SeqsUpTo(GenItems, MaxList)
    /\ excludesList \in SeqsUpTo(GenItems, MaxList)
    /\ helper \in Helpers
    /\ mapFunc = IdentityMap
    /\ includes = {}
    /\ excludes = {}
    /\ call = NoCall
    /\ added = NoAdded
    /\ errs = <<>>

CallGetResource ==
    LET res == GetResourceIncludesExcludes(helper, includesList, excludesList)
    IN  /\ includes' = res.includes
        /\ excludes' = res.excludes
        /\ call' = [op |-> "GetResource", arg |-> <<>>, ret |-> TRUE, list |-> <<>>]
        /\ UNCHANGED <<added, Inputs>>

ResourceNext == CallGetResource

ResourceSpec == ResourceInit /\ [][ResourceNext]_vars

----------------------------------------------------------------------------
(* Properties of the IncludesExcludes object (checked under Spec). *)

\* Some pattern of the set compiles and, as a glob, matches s.
SomeGlobMatches(set, s) == \E item \in set : ~CompileErr(item) /\ GlobMatch(item, s)

\* C1: exclude wins -- whenever the candidate matches, as a glob, some
\* pattern of the excludes set, ShouldInclude returns false, whatever the
\* includes set holds.
C1_ExcludeWins ==
    (call.op = "ShouldInclude" /\ SomeGlobMatches(excludes, call.arg))
        => call.ret = FALSE

\* C2: when excludes.match(c) is false, ShouldInclude(c) is true iff the
\* includes set is empty, or holds the literal "*" (exact membership, also
\* beside other entries), or includes.match(c) is true.
C2_IncludeRule ==
    (call.op = "ShouldInclude" /\ ~match(excludes, call.arg))
        => (call.ret <=> \/ includes = {}
                         \/ Star \in includes
                         \/ match(includes, call.arg))

\* C2 witness: ShouldInclude answered true only because "*" is a member of
\* the includes set beside another entry (the set's match is false).
C2_Witness ==
    /\ call.op = "ShouldInclude"
    /\ ~match(excludes, call.arg)
    /\ Star \in includes /\ Cardinality(includes) > 1
    /\ ~match(includes, call.arg)
    /\ call.ret = TRUE

\* C3: IncludeEverything is true iff excludes is empty and includes is
\* empty or exactly {"*"}.
C3_IncludeEverything ==
    call.op = "IncludeEverything"
        => (call.ret <=> (excludes = {} /\ (includes = {} \/ includes = {Star})))

\* C3 witness: "*" beside another include, no excludes: the answer is false.
C3_Witness ==
    /\ call.op = "IncludeEverything"
    /\ excludes = {}
    /\ Star \in includes /\ includes # {Star}
    /\ call.ret = FALSE

\* Some pattern of the set does not compile.
HasMalformed(set) == \E item \in set : CompileErr(item)

\* C4 as stated: a set holding a malformed pattern matches no candidate,
\* whatever else it holds.
C4_MalformedNeverMatches ==
    (call.op = "match" /\ HasMalformed(includes)) => call.ret = FALSE

\* C4 amended: a set holding a malformed pattern matches the candidate iff
\* some valid pattern that matches it sorts before every malformed pattern
\* of the set; patterns sorting after a malformed one are never consulted.
C4_MalformedCutsScan ==
    (call.op = "match" /\ HasMalformed(includes))
        => (call.ret <=>
                \E item \in includes :
                    /\ ~CompileErr(item)
                    /\ GlobMatch(item, call.arg)
                    /\ \A bad \in includes : CompileErr(bad) => Less(item, bad))

\* C4 witness: a valid pattern equal to the candidate sorts after the
\* malformed one, and match answers false.
C4_Witness ==
    /\ call.op = "match"
    /\ HasMalformed(includes)
    /\ call.arg \in includes
    /\ ~CompileErr(call.arg)
    /\ call.ret = FALSE

\* x occurs exactly once in the slice.
OccursOnce(list, x) == Cardinality({ i \in 1..Len(list) : list[i] = x }) = 1

\* Every member occurs once in List(), which is as long as Len() says.
ListedOnce(set) ==
    /\ Len(List(set)) = SetLen(set)
    /\ \A x \in set : OccursOnce(List(set), x)

\* C8: adding is idempotent -- after any sequence of Includes / Excludes
\* calls each set is the set of distinct strings ever passed to it, each
\* occurring once in List() and counted once by Len(); a call that passes
\* only strings passed before leaves List() and Len() unchanged.
C8_AddIdempotent ==
    /\ [](/\ includes = added.inc /\ ListedOnce(includes)
          /\ excludes = added.exc /\ ListedOnce(excludes))
    /\ [][ /\ (call'.op = "Includes" /\ added'.inc = added.inc) =>
                  /\ List(includes') = List(includes)
                  /\ SetLen(includes') = SetLen(includes)
           /\ (call'.op = "Excludes" /\ added'.exc = added.exc) =>
                  /\ List(excludes') = List(excludes)
                  /\ SetLen(excludes') = SetLen(excludes)
         ]_vars

\* C8 witness: one string has been passed to Includes, more than once.
C8_Witness ==
    /\ call.op = "Includes"
    /\ added.again
    /\ Len(List(includes)) = 1

----------------------------------------------------------------------------
(* Properties of the validator (checked under ValidateSpec). *)

Count(list, e) == Cardinality({ i \in 1..Len(list) : list[i] = e })

\* What remains of the result once the three kinds of violation are set
\* aside, and the number of each kind.
OverlapItems == ToSet(includesList) \cap ToSet(excludesList)
Violations(mixed) ==
    /\ Count(errs, WildcardMixed) = (IF mixed THEN 1 ELSE 0)
    /\ Count(errs, WildcardExcluded) = (IF Star \in ToSet(excludesList) THEN 1 ELSE 0)
    /\ \A itm \in OverlapItems : Count(errs, Overlap(itm)) = 1
    /\ Len(errs) = (IF mixed THEN 1 ELSE 0)
                   + (IF Star \in ToSet(excludesList) THEN 1 ELSE 0)
                   + Cardinality(OverlapItems)

\* C5 as stated: the result holds one violation if the includes list has
\* more than one entry and contains "*", one if the excludes list contains
\* "*", one per item present in both lists, and nothing else.
C5_ValidateByEntries ==
    call.op = "Validate"
        => Violations(Len(includesList) > 1 /\ Star \in ToSet(includesList))

\* C5 amended: as above, with the first rule counting distinct entries --
\* one violation if the includes list has more than one distinct entry and
\* contains "*".
C5_ValidateByDistinct ==
    call.op = "Validate"
        => Violations(Cardinality(ToSet(includesList)) > 1 /\ Star \in ToSet(includesList))

\* C5 witness: all three rules are broken and reported by one call.
C5_Witness ==
    /\ call.op = "Validate"
    /\ Count(errs, WildcardMixed) = 1
    /\ Count(errs, WildcardExcluded) = 1
    /\ \E itm \in OverlapItems : Count(errs, Overlap(itm)) = 1

----------------------------------------------------------------------------
(* Properties of the generator (checked under GenerateSpec, ResourceSpec). *)

\* The keys of the raw entries other than "*", without the empty key.
MappedKeys(list, fn) == { fn[item] : item \in ToSet(list) \ {Star} } \ {<<>>}

\* C6: the generated includes are "*" (if the raw includes hold it, never
\* mapped) and the non-empty keys of the other raw includes; the generated
\* excludes are the non-empty keys of the raw excludes other than "*".
C6_Generate ==
    call.op = "Generate" =>
        /\ includes = (IF Star \in ToSet(includesList) THEN {Star} ELSE {})
                          \cup MappedKeys(includesList, mapFunc)
        /\ excludes = MappedKeys(excludesList, mapFunc)

\* C6 witness: a raw include mapped to "" leaves the includes empty, and a
\* wildcard in the raw excludes is dropped.
C6_Witness ==
    /\ call.op = "Generate"
    /\ includesList # <<>> /\ includes = {}
    /\ Star \in ToSet(excludesList) /\ Star \notin excludes
    /\ excludes # {}

\* The entry the generated set must hold for a raw entry: the entry itself
\* when the resolver fails, the resolved group-resource otherwise.
Expected(item) ==
    LET gvr == helper[ParseGroupResource(item)]
    IN  IF gvr.err THEN item
        ELSE GRString([Group |-> gvr.Group, Resource |-> gvr.Resource])

\* C7: resolver fallback -- every raw entry other than "*" is in the
\* generated set, unresolved if the resolver failed on it and resolved
\* otherwise.
C7_ResolverFallback ==
    call.op = "GetResource" =>
        /\ \A item \in ToSet(includesList) \ {Star} : Expected(item) \in includes
        /\ \A item \in ToSet(excludesList) \ {Star} : Expected(item) \in excludes


\* C9: no accidental widening -- a non-empty raw includes list never
\* yields an empty generated includes set, whatever the resolver fails on.
C9_NoWidening ==
    (call.op = "GetResource" /\ includesList # <<>>) => includes # {}

----------------------------------------------------------------------------
(* Consistency of the queries (checked under Spec). *)

Queries == {"ShouldInclude", "IncludeEverything", "match", "GetIncludes", "GetExcludes"}

\* C10: whenever IncludeEverything is true, ShouldInclude is true of every
\* candidate; the queries leave both sets unchanged, Includes leaves the
\* excludes unchanged and Excludes leaves the includes unchanged.
C10_QueriesConsistent ==
    /\ [](IncludeEverything(includes, excludes)
            => \A c \in Candidates : ShouldInclude(includes, excludes, c))
    /\ [][ /\ call'.op \in Queries => (includes' = includes /\ excludes' = excludes)
           /\ call'.op = "Includes" => excludes' = excludes
           /\ call'.op = "Excludes" => includes' = includes
         ]_vars

\* C10 witness: the filter is the lone wildcard with no excludes, and
\* ShouldInclude has just answered true.
C10_Witness ==
    /\ call.op = "ShouldInclude"
    /\ includes = {Star} /\ excludes = {}
    /\ IncludeEverything(includes, excludes)
    /\ call.ret = TRUE

====
